---- MODULE Spec2Model ----
(***************************************************************************)
(* Model of the incoming side of media-server-go:                          *)
(*   IncomingStreamTrack (attach counter, stats cache, active layers,      *)
(*   Stop), IncomingStream (track map, AddTrack, CreateTrack, Stop) and    *)
(*   StreamerSession (Stop and the two back-reference listeners).          *)
(*                                                                         *)
(* Objects live in a pool (trackObjs) and are named by references.  Every  *)
(* handler is one action.  A handler that calls other handlers            *)
(* synchronously (Stop -> EmitSync -> listeners) is computed by operators  *)
(* that thread a "world" record through the calls; the action then stores  *)
(* the resulting world in the variables.  The variable `call` records the  *)
(* last handler executed: what it was called on, what it observed on      *)
(* entry, the notifications it emitted and the external calls it made, in  *)
(* order.                                                                  *)
(***************************************************************************)
EXTENDS Integers, Sequences, FiniteSets, TLC

VARIABLES
    trackObjs,      \* pool of IncomingStreamTrack objects, by reference
    emits,          \* per track: notifications emitted so far
    streamTracks,   \* IncomingStream.tracks : track id -> track reference
    transport,      \* IncomingStream.transport is non-nil
    registered,     \* source-groups currently registered with the transport
    streamEmits,    \* notifications emitted by the IncomingStream so far
    sess,           \* the StreamerSession
    now,            \* time.Now().UnixNano()
    rawLayers,      \* the per-layer counters of one receive sub-source
    call,           \* the last handler executed
    history         \* the handlers executed so far, when they are recorded

vars == <<trackObjs, emits, streamTracks, transport, registered,
          streamEmits, sess, now, rawLayers, call, history>>

-----------------------------------------------------------------------------
(* Bounds of the model *)

NTracks == 2        \* track objects in the pool
MaxCounter == 3     \* |counter| explored by Attached / Detached
MaxEmits == 3       \* "attached" / "detached" notifications counted
MaxTicks == 2       \* clock ticks explored
MaxLayers == 3      \* raw layers of one sub-source handed to the aggregator
MaxCalls == 7       \* handler calls recorded in the history

(* Program constants *)

FreshnessWindowNs == 200000000  \* GetStats: an entry older than this is refreshed
MaxLayerId == 255               \* sentinel spatial / temporal id of a synthesized layer

\* The clock of the model advances by one freshness window at a time: after
\* one step an entry is exactly 200 ms old, after two it is older.
TickNs == FreshnessWindowNs

-----------------------------------------------------------------------------
(* Generic helpers *)

Nil == "nil"

TrackRefs == 1..NTracks

NoTrack == [live |-> FALSE]

EmptyMap == [k \in {} |-> Nil]

\* Go's delete(m, k): a no-op when k is not a key.
MapDelete(m, k) == [x \in (DOMAIN m) \ {k} |-> m[x]]

\* Go's m[k] = v.
MapPut(m, k, v) == [x \in (DOMAIN m) \cup {k} |-> IF x = k THEN v ELSE m[x]]

\* All orders in which a range loop may visit the keys of a Go map.
Perms(S) ==
    {s \in [1..Cardinality(S) -> S] : \A i, j \in 1..Cardinality(S) : i # j => s[i] # s[j]}

-----------------------------------------------------------------------------
(* IncomingStreamTrack *)

\* A Go map value that may be nil: nil |-> TRUE is the nil map, which ranges
\* over nothing.
NilMap == [nil |-> TRUE, m |-> EmptyMap]

MkMap(m) == [nil |-> FALSE, m |-> m]

Keys(gm) == DOMAIN gm.m

\* A receive-source-group: n is its ordinal among the groups built for the
\* track (its identity), media / rtx / fec are the SSRCs of its sub-sources.
SourceGroup(n, media, rtx, fec) == [n |-> n, media |-> media, rtx |-> rtx, fec |-> fec]

\* newIncomingStreamTrack: counter 0, a fresh emitter, one Encoding per entry
\* of sources (the encoding's id is its key; the depacketizer is bound to
\* the source and is not modelled apart from it).
newIncomingStreamTrack(id, receiver, sources) ==
    [live      |-> TRUE,
     id        |-> id,
     receiver  |-> receiver,
     counter   |-> 0,
     encodings |-> MkMap(sources),
     stats     |-> NilMap,
     once      |-> << >>]

NoEmits == [attached |-> 0, detached |-> 0, stopped |-> 0]

\* The world threaded through a handler and the handlers it calls.
World ==
    [trk |-> trackObjs, emits |-> emits, map |-> streamTracks,
     transport |-> transport, registered |-> registered,
     semits |-> streamEmits, sess |-> sess, now |-> now,
     emitted |-> << >>, log |-> << >>, panicked |-> FALSE, result |-> Nil,
     arg |-> Nil]

Logged(w, entries) == [w EXCEPT !.log = @ \o entries]

\* The one-shot "stopped" listeners.
\*   createTrack: CreateTrack's closure (delete from the map, unregister the
\*                sources from the transport; a nil transport panics)
\*   addTrack:    AddTrack's closure (delete from the map)
\*   incoming:    NewStreamerSession's closure (clear the back-reference)
RECURSIVE RemoveSources(_, _, _, _)
RemoveSources(w, t, sources, ord) ==
    IF ord = << >> \/ w.panicked THEN w
    ELSE IF ~w.transport
         THEN [w EXCEPT !.panicked = TRUE]
         ELSE RemoveSources(
                 [w EXCEPT !.registered = @ \ {<<t, sources[Head(ord)].n>>},
                           !.log = Append(@, <<"RemoveIncomingSourceGroup", t, sources[Head(ord)].n>>)],
                 t, sources, Tail(ord))

CreateTrackListener(w, t, l, srcOrd) ==
    RemoveSources([w EXCEPT !.map = MapDelete(@, w.trk[t].id)], t, l.sources, srcOrd)

AddTrackListener(w, t) == [w EXCEPT !.map = MapDelete(@, w.trk[t].id)]

\* A listener that leaves the session's back-reference in place.
IncomingListenerKeepsReference(w) == w

IncomingListener(w) == [w EXCEPT !.sess.incoming = 0]

RunListener(w, t, l, srcOrd) ==
    CASE l.kind = "createTrack" -> CreateTrackListener(w, t, l, srcOrd)
      [] l.kind = "addTrack"    -> AddTrackListener(w, t)
      [] l.kind = "incoming"    -> IncomingListener(w)

RECURSIVE RunListeners(_, _, _, _)
RunListeners(w, t, ls, srcOrd) ==
    IF ls = << >> \/ w.panicked THEN w
    ELSE RunListeners(RunListener(w, t, Head(ls), srcOrd), t, Tail(ls), srcOrd)

\* i.EmitSync("stopped") on a track: every listener runs, in registration
\* order, before EmitSync returns; the listeners are one-shot.
EmitStopped(w, t, srcOrd) ==
    RunListeners(
        [w EXCEPT !.emits[t].stopped = @ + 1,
                  !.emitted = Append(@, <<"stopped", t>>),
                  !.log = Append(@, <<"EmitSync stopped", t, 0>>),
                  !.trk[t].once = << >>],
        t, w.trk[t].once, srcOrd)

\* The release loop of Stop, visiting the encodings in the order encOrd.
RECURSIVE ReleaseEncodings(_, _, _)
ReleaseEncodings(t, encodings, encOrd) ==
    IF encOrd = << >> THEN << >>
    ELSE << <<"depacketizer.Stop", t, encodings[Head(encOrd)].n>>,
            <<"DeleteStreamTrackDepacketizer", t, encodings[Head(encOrd)].n>>,
            <<"DeleteRTPIncomingSourceGroup", t, encodings[Head(encOrd)].n>> >>
         \o ReleaseEncodings(t, encodings, Tail(encOrd))

\* Stop without the receiver == nil guard.
StopTrackUnguarded(w, t, ord) ==
    LET released == Logged(w, ReleaseEncodings(t, w.trk[t].encodings.m, ord.enc))
        emitted  == EmitStopped(released, t, ord.src)
    IN  IF emitted.panicked THEN emitted
        ELSE [emitted EXCEPT !.trk[t].encodings = NilMap,
                             !.trk[t].receiver = FALSE,
                             !.log = @ \o << <<"encodings = nil", t, 0>>,
                                             <<"receiver = nil", t, 0>> >>]

\* Stop clearing the encoding map and the receiver before it emits.
StopTrackClearsFirst(w, t, ord) ==
    IF ~w.trk[t].receiver THEN w
    ELSE LET released == Logged(w, ReleaseEncodings(t, w.trk[t].encodings.m, ord.enc))
             cleared  == [released EXCEPT !.trk[t].encodings = NilMap,
                                          !.trk[t].receiver = FALSE,
                                          !.log = @ \o << <<"encodings = nil", t, 0>>,
                                                          <<"receiver = nil", t, 0>> >>]
         IN  EmitStopped(cleared, t, ord.src)

\* IncomingStreamTrack.Stop.  ord.enc is the order of the range loop over
\* the encodings, ord.src the order of the range loop in CreateTrack's
\* listener.
StopTrack(w, t, ord) ==
    IF ~w.trk[t].receiver THEN w
    ELSE LET released == Logged(w, ReleaseEncodings(t, w.trk[t].encodings.m, ord.enc))
             emitted  == EmitStopped(released, t, ord.src)
         IN  IF emitted.panicked THEN emitted
             ELSE [emitted EXCEPT !.trk[t].encodings = NilMap,
                                  !.trk[t].receiver = FALSE,
                                  !.log = @ \o << <<"encodings = nil", t, 0>>,
                                                  <<"receiver = nil", t, 0>> >>]

\* One raw per-layer sample of a receive sub-source.
RawLayer(sid, tid, bytes, packets, bitrate) ==
    [SpatialLayerId |-> sid, TemporalLayerId |-> tid,
     TotalBytes |-> bytes, NumPackets |-> packets, Bitrate |-> bitrate]

\* The inner loop summing only the layers strictly below in both ids.
RECURSIVE AccumulateStrict(_, _)
AccumulateStrict(aggregated, individual) ==
    IF individual = << >> THEN aggregated
    ELSE LET layer2 == Head(individual) IN
         AccumulateStrict(
            IF /\ layer2.SpatialLayerId < aggregated.SpatialLayerId
               /\ layer2.TemporalLayerId < aggregated.TemporalLayerId
            THEN [aggregated EXCEPT !.TotalBytes = @ + layer2.TotalBytes,
                                    !.NumPackets = @ + layer2.NumPackets,
                                    !.Bitrate = @ + layer2.Bitrate]
            ELSE aggregated,
            Tail(individual))

\* The inner loop of getStatsFromIncomingSource: layer2 over `individual`,
\* adding to `aggregated` when both ids are <= its ids.
RECURSIVE Accumulate(_, _)
Accumulate(aggregated, individual) ==
    IF individual = << >> THEN aggregated
    ELSE LET layer2 == Head(individual) IN
         Accumulate(
            IF /\ layer2.SpatialLayerId <= aggregated.SpatialLayerId
               /\ layer2.TemporalLayerId <= aggregated.TemporalLayerId
            THEN [aggregated EXCEPT !.TotalBytes = @ + layer2.TotalBytes,
                                    !.NumPackets = @ + layer2.NumPackets,
                                    !.Bitrate = @ + layer2.Bitrate]
            ELSE aggregated,
            Tail(individual))

\* The outer loop: one aggregated layer per raw layer, in the same order.
\* SimulcastIdx is the zero value until GetStats ranks the entry.
AggregateLayers(individual) ==
    [i \in 1..Len(individual) |->
        Accumulate([SpatialLayerId  |-> individual[i].SpatialLayerId,
                    TemporalLayerId |-> individual[i].TemporalLayerId,
                    TotalBytes |-> 0, NumPackets |-> 0, Bitrate |-> 0,
                    SimulcastIdx |-> 0],
                   individual)]

\* getStatsFromIncomingSource: the counters read from the sub-source (of the
\* flat counters, which are copied verbatim, the model keeps the bitrate)
\* and the aggregated layers.
getStatsFromIncomingSource(source) ==
    [Bitrate |-> source.bitrate, Layers |-> AggregateLayers(source.layers)]

\* The freshness test with >= : an entry exactly 200 ms old is refreshed.
IsStaleAtWindow(state, t) == t - state.timestamp >= FreshnessWindowNs

\* time.Now().UnixNano()-state.timestamp > 200000000
IsStale(state, t) == t - state.timestamp > FreshnessWindowNs

NeedsRefresh(stats, id, t) == id \notin DOMAIN stats \/ IsStale(stats[id], t)

\* The entry GetStats stores for an encoding whose source-group reads
\* `reading` (the media, fec and rtx sub-sources) after Update.
NewAllStats(reading, t) ==
    LET media == getStatsFromIncomingSource(reading.media)
        fec   == getStatsFromIncomingSource(reading.fec)
        rtx   == getStatsFromIncomingSource(reading.rtx)
    IN  [Media |-> media, Rtx |-> rtx, Fec |-> fec,
         Bitrate |-> media.Bitrate,
         Total |-> media.Bitrate + fec.Bitrate + rtx.Bitrate,
         SimulcastIdx |-> 0,
         timestamp |-> t]

\* Lines 246-269: the loop over the encodings, in the order encOrd; readings
\* gives what each refreshed source-group reads.  The call takes time: the
\* clock advances by one tick before iteration tickAt (never when tickAt
\* is 0).
RECURSIVE RefreshStats(_, _, _, _, _)
RefreshStats(w, t, encOrd, readings, tickAt) ==
    IF encOrd = << >> THEN w
    ELSE LET id == Head(encOrd)
             at == [w EXCEPT !.now = IF tickAt = 1 THEN @ + TickNs ELSE @]
         IN  RefreshStats(
                IF NeedsRefresh(at.trk[t].stats.m, id, at.now)
                THEN [at EXCEPT !.log = Append(@, <<"source.Update", t, at.trk[t].encodings.m[id].n>>),
                                !.trk[t].stats.m = MapPut(@, id, NewAllStats(readings[id], at.now))]
                ELSE at,
                t, Tail(encOrd), readings, tickAt - 1)

\* sort.Slice(stats, Bitrate descending) is not stable: any order of the
\* entries in which no entry precedes one of higher bitrate.
SortedDescending(stats) ==
    {o \in Perms(DOMAIN stats) :
        \A i, j \in 1..Len(o) : i < j => stats[o[i]].Bitrate >= stats[o[j]].Bitrate}

\* Lines 281-292 ranking only the entries refreshed at the latest timestamp
\* (an entry reused from an earlier call keeps the index it had).
RECURSIVE AssignRefreshedOnly(_, _, _)
AssignRefreshedOnly(stats, order, simulcastIdx) ==
    IF order = << >> THEN stats
    ELSE LET id     == Head(order)
             newest == \A other \in DOMAIN stats : stats[other].timestamp <= stats[id].timestamp
             next   == IF newest /\ stats[id].Bitrate > 0 THEN simulcastIdx + 1 ELSE simulcastIdx
             idx    == IF ~newest THEN stats[id].SimulcastIdx
                       ELSE IF stats[id].Bitrate > 0 THEN next ELSE -1
         IN  AssignRefreshedOnly(
                [stats EXCEPT ![id].SimulcastIdx = idx,
                              ![id].Media.Layers = [i \in DOMAIN @ |-> [@[i] EXCEPT !.SimulcastIdx = idx]]],
                Tail(order), next)

\* Lines 281-292: the entries in sorted order get 1, 2, ... while their
\* bitrate is positive and -1 otherwise; the index is copied onto the media
\* layers of the entry.
RECURSIVE AssignSimulcastIdx(_, _, _)
AssignSimulcastIdx(stats, order, simulcastIdx) ==
    IF order = << >> THEN stats
    ELSE LET id   == Head(order)
             next == IF stats[id].Bitrate > 0 THEN simulcastIdx + 1 ELSE simulcastIdx
             idx  == IF stats[id].Bitrate > 0 THEN next ELSE -1
         IN  AssignSimulcastIdx(
                [stats EXCEPT ![id].SimulcastIdx = idx,
                              ![id].Media.Layers = [i \in DOMAIN @ |-> [@[i] EXCEPT !.SimulcastIdx = idx]]],
                Tail(order), next)

\* Line 242: a nil cache becomes an empty one.
EnsureStats(w, t) ==
    IF w.trk[t].stats.nil THEN [w EXCEPT !.trk[t].stats = MkMap(EmptyMap)] ELSE w

\* IncomingStreamTrack.GetStats up to the sort: the refreshed cache.
Refreshed(w, t, encOrd, readings, tickAt) ==
    RefreshStats(EnsureStats(w, t), t, encOrd, readings, tickAt)

\* IncomingStreamTrack.GetStats from the sort on; sortOrd is the order
\* sort.Slice left the entries in.
Ranked(w, t, sortOrd) ==
    [w EXCEPT !.trk[t].stats.m = AssignSimulcastIdx(@, sortOrd, 0)]

\* A Layer value of an outward-facing view (unset fields are zero values).
LayerView(id, layer) ==
    [EncodingId |-> id, SimulcastIdx |-> layer.SimulcastIdx,
     SpatialLayerId |-> layer.SpatialLayerId, TemporalLayerId |-> layer.TemporalLayerId,
     TotalBytes |-> 0, NumPackets |-> 0, Bitrate |-> layer.Bitrate]

\* sort.Slice(x, Bitrate ascending) is not stable: the index orders in which
\* no element precedes one of lower bitrate.
RECURSIVE SortedIndexes(_, _)
SortedIndexes(seq, S) ==
    IF S = {} THEN {<< >>}
    ELSE UNION {{<<i>> \o rest : rest \in SortedIndexes(seq, S \ {i})} :
                  i \in {i \in S : \A j \in S : seq[i].Bitrate <= seq[j].Bitrate}}

SortedAscending(seq) ==
    {[n \in 1..Len(seq) |-> seq[p[n]]] : p \in SortedIndexes(seq, 1..Len(seq))}

\* Lines 345-351: the layer synthesized for an active encoding without layers.
SynthesizedLayer(encoding) ==
    [EncodingId |-> encoding.EncodingId, SimulcastIdx |-> encoding.SimulcastIdx,
     SpatialLayerId |-> MaxLayerId, TemporalLayerId |-> MaxLayerId,
     TotalBytes |-> 0, NumPackets |-> 0, Bitrate |-> encoding.Bitrate]

\* Lines 307-312: the entry of the inactive list.
InactiveEncoding(id) ==
    [EncodingId |-> id, SimulcastIdx |-> 0, Bitrate |-> 0, Layers |-> << >>]

\* The body of the loop at line 305 without the else branch of line 343:
\* nothing is synthesized for an active encoding without layers.
VisitEncodingNoSynthesis(id, state, acc) ==
    IF state.Bitrate = 0
    THEN {[acc EXCEPT !.inactive = Append(@, InactiveEncoding(id))]}
    ELSE LET encoding == [EncodingId |-> id, SimulcastIdx |-> state.SimulcastIdx,
                          Bitrate |-> state.Bitrate, Layers |-> << >>]
             own   == [i \in 1..Len(state.Media.Layers) |-> LayerView(<< >>, state.Media.Layers[i])]
             views == [i \in 1..Len(state.Media.Layers) |-> LayerView(id, state.Media.Layers[i])]
         IN  {[acc EXCEPT !.active = Append(@, [encoding EXCEPT !.Layers = sorted]),
                          !.all = @ \o views] : sorted \in SortedAscending(own)}

\* The loop body testing the simulcast index instead of the bitrate: an
\* encoding ranked second or lower goes to the inactive list.
VisitEncodingByIndex(id, state, acc) ==
    IF state.SimulcastIdx # 1
    THEN {[acc EXCEPT !.inactive = Append(@, InactiveEncoding(id))]}
    ELSE LET encoding == [EncodingId |-> id, SimulcastIdx |-> state.SimulcastIdx,
                          Bitrate |-> state.Bitrate, Layers |-> << >>]
             own   == [i \in 1..Len(state.Media.Layers) |-> LayerView(<< >>, state.Media.Layers[i])]
             views == [i \in 1..Len(state.Media.Layers) |-> LayerView(id, state.Media.Layers[i])]
         IN  IF Len(own) > 0
             THEN {[acc EXCEPT !.active = Append(@, [encoding EXCEPT !.Layers = sorted]),
                               !.all = @ \o views] : sorted \in SortedAscending(own)}
             ELSE {[acc EXCEPT !.active = Append(@, encoding),
                               !.all = Append(@, SynthesizedLayer(encoding))]}

\* The body of the loop at line 305 for one entry of the cache: the
\* accumulators (active, inactive, all) it may leave, one per outcome of the
\* sort of the encoding's layers.
VisitEncoding(id, state, acc) ==
    IF state.Bitrate = 0
    THEN {[acc EXCEPT !.inactive = Append(@, InactiveEncoding(id))]}
    ELSE LET encoding == [EncodingId |-> id, SimulcastIdx |-> state.SimulcastIdx,
                          Bitrate |-> state.Bitrate, Layers |-> << >>]
             own   == [i \in 1..Len(state.Media.Layers) |-> LayerView(<< >>, state.Media.Layers[i])]
             views == [i \in 1..Len(state.Media.Layers) |-> LayerView(id, state.Media.Layers[i])]
         IN  IF Len(own) > 0
             THEN {[acc EXCEPT !.active = Append(@, [encoding EXCEPT !.Layers = sorted]),
                               !.all = @ \o views] : sorted \in SortedAscending(own)}
             ELSE {[acc EXCEPT !.active = Append(@, encoding),
                               !.all = Append(@, SynthesizedLayer(encoding))]}

\* The loop at line 305 over the cache, in the order mapOrd.
RECURSIVE VisitEncodings(_, _, _)
VisitEncodings(stats, mapOrd, acc) ==
    IF mapOrd = << >> THEN {acc}
    ELSE UNION {VisitEncodings(stats, Tail(mapOrd), next) :
                  next \in VisitEncoding(Head(mapOrd), stats[Head(mapOrd)], acc)}

\* IncomingStreamTrack.GetActiveLayers after its GetStats call: the values it
\* may return for the cache `stats` visited in the order mapOrd.
ActiveLayersInfo(stats, mapOrd) ==
    UNION {{[Active |-> active, Inactive |-> acc.inactive, Layers |-> all] :
               active \in SortedAscending(acc.active), all \in SortedAscending(acc.all)} :
            acc \in VisitEncodings(stats, mapOrd,
                                   [active |-> << >>, inactive |-> << >>, all |-> << >>])}

\* Attached emitting on every call that leaves the count positive.
AttachedEveryCall(w, t) ==
    [w EXCEPT !.trk[t].counter = @ + 1,
              !.emits[t].attached = @ + 1,
              !.emitted = Append(@, <<"attached", t>>)]

\* IncomingStreamTrack.Attached
AttachedIn(w, t) ==
    LET counted == [w EXCEPT !.trk[t].counter = @ + 1] IN
    IF counted.trk[t].counter = 1
    THEN [counted EXCEPT !.emits[t].attached = @ + 1,
                         !.emitted = Append(@, <<"attached", t>>)]
    ELSE counted

\* Detached emitting whenever the count is no longer positive.
DetachedAtOrBelowZero(w, t) ==
    LET counted == [w EXCEPT !.trk[t].counter = @ - 1] IN
    IF counted.trk[t].counter <= 0
    THEN [counted EXCEPT !.emits[t].detached = @ + 1,
                         !.emitted = Append(@, <<"detached", t>>)]
    ELSE counted

\* IncomingStreamTrack.Detached
DetachedIn(w, t) ==
    LET counted == [w EXCEPT !.trk[t].counter = @ - 1] IN
    IF counted.trk[t].counter = 0
    THEN [counted EXCEPT !.emits[t].detached = @ + 1,
                         !.emitted = Append(@, <<"detached", t>>)]
    ELSE counted

\* IncomingStreamTrack.Refresh: a PLI on the media SSRC of every encoding.
RECURSIVE RefreshIn(_, _, _)
RefreshIn(w, t, encOrd) ==
    IF encOrd = << >> THEN w
    ELSE RefreshIn(Logged(w, << <<"SendPLI", t, w.trk[t].encodings.m[Head(encOrd)].media>> >>),
                   t, Tail(encOrd))

\* The orders the two range loops of one Stop call may take.
StopOrders(t) ==
    [enc : Perms(Keys(trackObjs[t].encodings)),
     src : Perms(Keys(trackObjs[t].encodings))]

-----------------------------------------------------------------------------
(* Strings that the code converts are sequences of one-character strings *)

DigitChars == <<"0", "1", "2", "3", "4", "5", "6", "7", "8", "9">>

IsDigit(c) == \E i \in 1..10 : DigitChars[i] = c

DigitValue(c) == (CHOOSE i \in 1..10 : DigitChars[i] = c) - 1

\* strconv.ParseUint(s, 10, 32): the empty string and any non-digit character
\* are syntax errors (the range error needs more than nine digits and lies
\* outside the descriptions explored).
RECURSIVE ParseDigits(_, _)
ParseDigits(s, acc) ==
    IF s = << >> THEN acc ELSE ParseDigits(Tail(s), acc * 10 + DigitValue(Head(s)))

ParseUint(s) ==
    IF s = << >> \/ \E i \in 1..Len(s) : ~IsDigit(s[i])
    THEN [err |-> TRUE, val |-> 0]
    ELSE [err |-> FALSE, val |-> ParseDigits(s, 0)]

\* strconv.Itoa / strconv.FormatUint(n, 10) for n >= 0.
RECURSIVE FormatUint(_)
FormatUint(n) ==
    IF n < 10 THEN <<DigitChars[n + 1]>>
    ELSE Append(FormatUint(n \div 10), DigitChars[(n % 10) + 1])

-----------------------------------------------------------------------------
(* IncomingStream *)

\* A track description (sdp.TrackInfo) as CreateTrack reads it:
\*   id, ssrcs, groups (semantics, ssrcs) and encodings (alternatives of
\*   encodings, each with a rid and an optional "ssrc" parameter).
NoParam == [has |-> FALSE, val |-> << >>]

Param(v) == [has |-> TRUE, val |-> v]

\* track.GetSourceGroup(semantics): the first group with these semantics.
HasSourceGroup(d, semantics) == \E i \in 1..Len(d.groups) : d.groups[i].semantics = semantics

GetSourceGroup(d, semantics) ==
    d.groups[CHOOSE i \in 1..Len(d.groups) :
                /\ d.groups[i].semantics = semantics
                /\ \A j \in 1..(i - 1) : d.groups[j].semantics # semantics]

\* The scan of the grouping relations for the companions of `media`: the last
\* matching FID / FEC-FR group wins.
RECURSIVE Companion(_, _, _, _)
Companion(groups, media, semantics, acc) ==
    IF groups = << >> THEN acc
    ELSE Companion(Tail(groups), media, semantics,
                   IF Head(groups).ssrcs[1] = media /\ Head(groups).semantics = semantics
                   THEN Head(groups).ssrcs[2] ELSE acc)

\* The state of the strategy loops: the world, the sources map built so far
\* and the number of groups created by NewRTPIncomingSourceGroup.
Builder(w) == [w |-> w, sources |-> EmptyMap, n |-> 0]

\* i.transport.AddIncomingSourceGroup(source); sources[key] = source
Register(b, t, key, source) ==
    IF ~b.w.transport
    THEN [b EXCEPT !.w.panicked = TRUE]
    ELSE [b EXCEPT !.w.registered = @ \cup {<<t, source.n>>},
                   !.w.log = Append(@, <<"AddIncomingSourceGroup", t, source.n>>),
                   !.sources = MapPut(@, key, source)]

\* The rid loop registering the group before the "ssrc" parameter is
\* parsed: an encoding with a malformed parameter keeps its group.
RECURSIVE RidStrategyRegisterFirst(_, _, _, _)
RidStrategyRegisterFirst(b, t, d, encs) ==
    IF encs = << >> \/ b.w.panicked THEN b
    ELSE LET e  == Head(encs)
             n  == b.n + 1
             p  == ParseUint(e.ssrc.val)
             m  == IF e.ssrc.has /\ ~p.err THEN p.val ELSE 0
         IN  RidStrategyRegisterFirst(
                Register([b EXCEPT !.n = n], t, e.id,
                         SourceGroup(n, m, Companion(d.groups, m, "FID", 0),
                                     Companion(d.groups, m, "FEC-FR", 0))),
                t, d, Tail(encs))

\* Lines 119-164: one group per signaled encoding, keyed by rid.
RECURSIVE RidStrategy(_, _, _, _)
RidStrategy(b, t, d, encs) ==
    IF encs = << >> \/ b.w.panicked THEN b
    ELSE LET e  == Head(encs)
             n  == b.n + 1
             b1 == [b EXCEPT !.n = n]
             p  == ParseUint(e.ssrc.val)
         IN  IF e.ssrc.has /\ p.err
             THEN RidStrategy(b1, t, d, Tail(encs))     \* continue
             ELSE RidStrategy(
                     Register(b1, t, e.id,
                        IF e.ssrc.has
                        THEN SourceGroup(n, p.val,
                                         Companion(d.groups, p.val, "FID", 0),
                                         Companion(d.groups, p.val, "FEC-FR", 0))
                        ELSE SourceGroup(n, 0, 0, 0)),
                     t, d, Tail(encs))

\* Lines 166-197: one group per SSRC of the SIM group, keyed by position.
RECURSIVE SimStrategy(_, _, _, _, _)
SimStrategy(b, t, d, ssrcs, j) ==
    IF j >= Len(ssrcs) \/ b.w.panicked THEN b
    ELSE SimStrategy(
            Register([b EXCEPT !.n = b.n + 1], t, FormatUint(j),
                     SourceGroup(b.n + 1, ssrcs[j + 1],
                                 Companion(d.groups, ssrcs[j + 1], "FID", 0),
                                 Companion(d.groups, ssrcs[j + 1], "FEC-FR", 0))),
            t, d, ssrcs, j + 1)

\* Lines 199-223: one group on the first SSRC, keyed by the empty string.
\* track.GetSSRCS()[0] on a description without SSRCs is an index out of
\* range, a run-time panic.
FlatStrategy(b, t, d) ==
    IF Len(d.ssrcs) = 0 THEN [b EXCEPT !.n = b.n + 1, !.w.panicked = TRUE]
    ELSE
    Register([b EXCEPT !.n = b.n + 1], t, << >>,
             SourceGroup(b.n + 1, d.ssrcs[1],
                         IF HasSourceGroup(d, "FID") THEN GetSourceGroup(d, "FID").ssrcs[2] ELSE 0,
                         IF HasSourceGroup(d, "FEC-FR") THEN GetSourceGroup(d, "FEC-FR").ssrcs[2] ELSE 0))

RECURSIVE Flatten(_)
Flatten(ss) == IF ss = << >> THEN << >> ELSE Head(ss) \o Flatten(Tail(ss))

\* The strategy selection testing the SIM group before the encodings.
BuildSourcesSimFirst(w, t, d) ==
    IF HasSourceGroup(d, "SIM")
    THEN SimStrategy(Builder(w), t, d, GetSourceGroup(d, "SIM").ssrcs, 0)
    ELSE IF Len(d.encodings) > 0 THEN RidStrategy(Builder(w), t, d, Flatten(d.encodings))
         ELSE FlatStrategy(Builder(w), t, d)

\* Lines 115-223: the strategy is chosen by the encodings first, then by
\* the SIM group.
BuildSources(w, t, d) ==
    IF Len(d.encodings) > 0 THEN RidStrategy(Builder(w), t, d, Flatten(d.encodings))
    ELSE IF HasSourceGroup(d, "SIM")
         THEN SimStrategy(Builder(w), t, d, GetSourceGroup(d, "SIM").ssrcs, 0)
         ELSE FlatStrategy(Builder(w), t, d)

\* IncomingStream.CreateTrack, building the new track in the free slot t.
CreateTrackIn(w, t, d) ==
    LET b == BuildSources(w, t, d) IN
    IF b.w.panicked THEN b.w
    ELSE [b.w EXCEPT
            !.trk[t] = [newIncomingStreamTrack(d.id, TRUE, b.sources) EXCEPT
                           !.once = <<[kind |-> "createTrack", sources |-> b.sources]>>],
            !.map = MapPut(@, d.id, t),
            !.emitted = Append(@, <<"track", t>>),
            !.log = Append(@, <<"EmitSync track", t, 0>>)]

\* The track descriptor newIncomingStreamTrack builds (lines 163-207) while
\* it ranges over the sources in the order ord: the SSRCs in use, an FID /
\* FEC-FR group per rtx / fec companion, and for every non-empty key an
\* encoding with that rid and, when the media SSRC is set, its "ssrc"
\* parameter formatted in decimal.
RECURSIVE TrackInfo(_, _, _)
TrackInfo(info, sources, ord) ==
    IF ord = << >> THEN info
    ELSE LET k      == Head(ord)
             source == sources[k]
             ssrcs  == (IF source.media > 0 THEN <<source.media>> ELSE << >>)
                       \o (IF source.rtx > 0 THEN <<source.rtx>> ELSE << >>)
                       \o (IF source.fec > 0 THEN <<source.fec>> ELSE << >>)
             groups == (IF source.rtx > 0
                        THEN <<[semantics |-> "FID", ssrcs |-> <<source.media, source.rtx>>]>>
                        ELSE << >>)
                       \o (IF source.fec > 0
                           THEN <<[semantics |-> "FEC-FR", ssrcs |-> <<source.media, source.fec>>]>>
                           ELSE << >>)
             encs   == IF Len(k) > 0
                       THEN << <<[id |-> k,
                                  ssrc |-> IF source.media > 0
                                           THEN Param(FormatUint(source.media))
                                           ELSE NoParam]>> >>
                       ELSE << >>
         IN  TrackInfo([info EXCEPT !.ssrcs = @ \o ssrcs,
                                    !.groups = @ \o groups,
                                    !.encodings = @ \o encs],
                       sources, Tail(ord))

\* track.GetTrackInfo().Clone() of a track built over `sources`.
GetTrackInfo(id, sources, ord) ==
    TrackInfo([id |-> id, ssrcs |-> << >>, groups |-> << >>, encodings |-> << >>], sources, ord)

\* AddTrack registering its listener before the duplicate check.
AddTrackListenerFirst(w, t) ==
    LET listening == [w EXCEPT !.trk[t].once = Append(@, [kind |-> "addTrack", sources |-> EmptyMap])] IN
    IF w.trk[t].id \in DOMAIN w.map
    THEN [w |-> listening, ret |-> "Track id already present in stream"]
    ELSE [w |-> [listening EXCEPT !.map = MapPut(@, w.trk[t].id, t)], ret |-> Nil]

\* IncomingStream.AddTrack: ret is the error returned.
AddTrackIn(w, t) ==
    IF w.trk[t].id \in DOMAIN w.map
    THEN [w |-> w, ret |-> "Track id already present in stream"]
    ELSE [w |-> [w EXCEPT !.trk[t].once = Append(@, [kind |-> "addTrack", sources |-> EmptyMap]),
                          !.map = MapPut(@, w.trk[t].id, t)],
          ret |-> Nil]

\* IncomingStream.Stop: the range loop visits the keys in the order trackOrd
\* (a key deleted before it is reached is not visited).
RECURSIVE StopTracks(_, _, _)
StopTracks(w, trackOrd, ords) ==
    IF trackOrd = << >> \/ w.panicked THEN w
    ELSE LET k == Head(trackOrd) IN
         IF k \notin DOMAIN w.map THEN StopTracks(w, Tail(trackOrd), ords)
         ELSE LET stopped == StopTrack(Logged(w, << <<"track.Stop", w.map[k], 0>> >>),
                                       w.map[k], ords[w.map[k]])
              IN  StopTracks(IF stopped.panicked THEN stopped
                             ELSE [stopped EXCEPT !.map = MapDelete(@, k)],
                             Tail(trackOrd), ords)

\* Stop that forgets to clear the transport reference.
StopStreamKeepsTransport(w, trackOrd, ords) ==
    IF ~w.transport THEN w
    ELSE LET stopped == StopTracks(w, trackOrd, ords) IN
         IF stopped.panicked THEN stopped
         ELSE [stopped EXCEPT !.semits.stopped = @ + 1,
                              !.emitted = Append(@, <<"stopped", 0>>),
                              !.log = Append(@, <<"Emit stopped", 0, 0>>)]

StopStream(w, trackOrd, ords) ==
    IF ~w.transport THEN w
    ELSE LET stopped == StopTracks(w, trackOrd, ords) IN
         IF stopped.panicked THEN stopped
         ELSE [stopped EXCEPT !.semits.stopped = @ + 1,
                              !.emitted = Append(@, <<"stopped", 0>>),
                              !.log = Append(@, <<"Emit stopped", 0, 0>>),
                              !.transport = FALSE]

-----------------------------------------------------------------------------
(* StreamerSession *)

\* OutgoingStreamTrack.Stop: a no-op once stopped; otherwise the track emits
\* "stopped", which runs NewStreamerSession's listener (outgoing = nil).
StopOutgoing(w) ==
    IF w.sess.outStopped THEN w
    ELSE [w EXCEPT !.sess.outStopped = TRUE,
                   !.sess.outEmits = @ + 1,
                   !.sess.outgoing = FALSE,
                   !.emitted = Append(@, <<"stopped", -1>>),
                   !.log = Append(@, <<"EmitSync stopped", -1, 0>>)]

\* NewStreamerSession: the incoming track is built in slot `t` over the
\* session's own source-group, keyed by the empty string; both tracks get a
\* one-shot "stopped" listener.
NewStreamerSession(t) ==
    [incoming |-> t, outgoing |-> TRUE, session |-> TRUE,
     outStopped |-> FALSE, outEmits |-> 0, emits |-> 0]

SessionIncomingTrack(id) ==
    [newIncomingStreamTrack(id, TRUE, [k \in {<< >>} |-> SourceGroup(1, 0, 0, 0)]) EXCEPT
        !.once = <<[kind |-> "incoming", sources |-> EmptyMap]>>]

\* Stop ending the RTP session before the tracks are stopped.
StopSessionEndsFirst(w, ord) ==
    IF ~w.sess.session THEN w
    ELSE LET ended == Logged(w, << <<"session.End", 0, 0>>, <<"DeleteRTPSessionFacade", 0, 0>> >>)
             inc == IF ended.sess.incoming # 0
                    THEN StopTrack(Logged(ended, << <<"incoming.Stop", ended.sess.incoming, 0>> >>),
                                   ended.sess.incoming, ord)
                    ELSE ended
             out == IF inc.panicked THEN inc
                    ELSE IF inc.sess.outgoing
                         THEN StopOutgoing(Logged(inc, << <<"outgoing.Stop", -1, 0>> >>))
                         ELSE inc
         IN  IF out.panicked THEN out
             ELSE [out EXCEPT
                     !.log = Append(@, <<"EmitSync session stopped", 0, 0>>),
                     !.emitted = Append(@, <<"session stopped", 0>>),
                     !.sess.emits = @ + 1,
                     !.sess.session = FALSE]

\* StreamerSession.Stop
StopSession(w, ord) ==
    IF ~w.sess.session THEN w
    ELSE LET inc == IF w.sess.incoming # 0
                    THEN StopTrack(Logged(w, << <<"incoming.Stop", w.sess.incoming, 0>> >>),
                                   w.sess.incoming, ord)
                    ELSE w
             out == IF inc.panicked THEN inc
                    ELSE IF inc.sess.outgoing
                         THEN StopOutgoing(Logged(inc, << <<"outgoing.Stop", -1, 0>> >>))
                         ELSE inc
         IN  IF out.panicked THEN out
             ELSE [out EXCEPT
                     !.log = @ \o << <<"session.End", 0, 0>>,
                                     <<"DeleteRTPSessionFacade", 0, 0>>,
                                     <<"EmitSync session stopped", 0, 0>> >>,
                     !.emitted = Append(@, <<"session stopped", 0>>),
                     !.sess.emits = @ + 1,
                     !.sess.session = FALSE]

-----------------------------------------------------------------------------
(* Handlers as actions *)

NoCall ==
    [op |-> "none", target |-> 0, emitted |-> << >>, log |-> << >>, ret |-> Nil, result |-> Nil,
     arg |-> Nil]

\* The history is recorded only in the specifications that start with it
\* switched on.
NoHistory == [on |-> FALSE, ops |-> << >>]

RecordedHistory == [on |-> TRUE, ops |-> << >>]

\* Room for one more recorded call.
CanRecord == history.on => Len(history.ops) < MaxCalls

\* A Go panic ends the program.
Running == call.ret # "panic"

\* Store the world a handler leaves behind, and record the call.
Commit(world, op, target, ret) ==
    \E w \in {world} :
        /\ trackObjs' = w.trk
        /\ emits' = w.emits
        /\ streamTracks' = w.map
        /\ transport' = w.transport
        /\ registered' = w.registered
        /\ streamEmits' = w.semits
        /\ sess' = w.sess
        /\ now' = w.now
        /\ call' = [op |-> op, target |-> target,
                    emitted |-> w.emitted, log |-> w.log,
                    ret |-> IF w.panicked THEN "panic" ELSE ret,
                    result |-> w.result,
                    arg |-> w.arg]
        /\ history' = IF history.on
                      THEN [history EXCEPT !.ops = Append(@, <<op, target>>)]
                      ELSE history

Live(t) == trackObjs[t].live

FreeSlots == {t \in TrackRefs : ~Live(t)}

\* Objects are allocated in slot order.
NextSlot == CHOOSE t \in FreeSlots : \A u \in FreeSlots : t <= u

\* The track descriptions handed to CreateTrack.
TrackIds == {"video", "a"}

Flat(id) ==
    [id |-> id, ssrcs |-> <<11>>, groups |-> << >>, encodings |-> << >>]

Sim(id) ==
    [id |-> id, ssrcs |-> <<11, 12, 21>>,
     groups |-> <<[semantics |-> "SIM", ssrcs |-> <<11, 21>>],
                  [semantics |-> "FID", ssrcs |-> <<11, 12>>]>>,
     encodings |-> << >>]

RidMalformed(id) ==
    [id |-> id, ssrcs |-> << >>, groups |-> << >>,
     encodings |-> << <<[id |-> <<"h">>, ssrc |-> Param(<<"x">>)]>> >>]

Descriptions ==
    UNION {{Flat(id), Sim(id), RidMalformed(id)} : id \in TrackIds}

StopOrdersOf(t) ==
    IF Live(t) THEN StopOrders(t) ELSE {[enc |-> << >>, src |-> << >>]}

AllStopOrders ==
    {f \in [TrackRefs -> UNION {StopOrdersOf(t) : t \in TrackRefs}] :
        \A t \in TrackRefs : f[t] \in StopOrdersOf(t)}

CreateTrack(d) ==
    /\ Running
    /\ FreeSlots # {}
    /\ Commit([CreateTrackIn(World, NextSlot, d) EXCEPT !.arg = d], "CreateTrack", NextSlot, Nil)
    /\ UNCHANGED rawLayers

\* A track built outside the stream (newIncomingStreamTrack over one
\* source-group keyed by the empty string), to be handed to AddTrack.
NewTrack(id) ==
    /\ Running
    /\ FreeSlots # {}
    /\ Commit([World EXCEPT !.trk[NextSlot] =
                  newIncomingStreamTrack(id, TRUE, [k \in {<< >>} |-> SourceGroup(1, 11, 0, 0)])],
              "newIncomingStreamTrack", NextSlot, Nil)
    /\ UNCHANGED rawLayers

AddTrack(t) ==
    /\ Running
    /\ Live(t)
    /\ \E added \in {AddTrackIn(World, t)} : Commit(added.w, "AddTrack", t, added.ret)
    /\ UNCHANGED rawLayers

TrackStop(t) ==
    /\ Running
    /\ Live(t)
    /\ \E ord \in StopOrders(t) : Commit(StopTrack(World, t, ord), "Track.Stop", t, Nil)
    /\ UNCHANGED rawLayers

StreamStop ==
    /\ Running
    /\ \E trackOrd \in Perms(DOMAIN streamTracks) : \E ords \in AllStopOrders :
          Commit(StopStream(World, trackOrd, ords), "Stream.Stop", 0, Nil)
    /\ UNCHANGED rawLayers

Attached(t) ==
    /\ Running
    /\ Live(t)
    /\ trackObjs[t].counter < MaxCounter
    /\ emits[t].attached < MaxEmits
    /\ CanRecord
    /\ Commit(AttachedIn(World, t), "Attached", t, Nil)
    /\ UNCHANGED rawLayers

Detached(t) ==
    /\ Running
    /\ Live(t)
    /\ trackObjs[t].counter > -MaxCounter
    /\ emits[t].detached < MaxEmits
    /\ CanRecord
    /\ Commit(DetachedIn(World, t), "Detached", t, Nil)
    /\ UNCHANGED rawLayers

Refresh(t) ==
    /\ Running
    /\ Live(t)
    /\ \E encOrd \in Perms(Keys(trackObjs[t].encodings)) :
          Commit(RefreshIn(World, t, encOrd), "Refresh", t, Nil)
    /\ UNCHANGED rawLayers

\* What a source-group may read after Update: the bitrate and the raw
\* layers of its media sub-source, and the bitrates of fec and rtx.
SubSource(bitrate, layers) == [bitrate |-> bitrate, layers |-> layers]

Reading(media, fec, rtx) == [media |-> media, fec |-> fec, rtx |-> rtx]

Readings ==
    {Reading(SubSource(0, << >>), SubSource(0, << >>), SubSource(0, << >>)),
     Reading(SubSource(50, << >>), SubSource(0, << >>), SubSource(0, << >>)),
     Reading(SubSource(50, <<RawLayer(0, 0, 600, 6, 50)>>), SubSource(0, << >>), SubSource(0, << >>)),
     Reading(SubSource(200, <<RawLayer(0, 1, 800, 8, 80), RawLayer(0, 0, 1200, 12, 120)>>),
             SubSource(5, << >>), SubSource(10, << >>))}

\* Readings that differ in the media bitrate only.
BitrateReadings ==
    {Reading(SubSource(0, << >>), SubSource(0, << >>), SubSource(0, << >>)),
     Reading(SubSource(50, << >>), SubSource(0, << >>), SubSource(0, << >>)),
     Reading(SubSource(200, <<RawLayer(0, 0, 1200, 12, 200)>>), SubSource(0, << >>), SubSource(0, << >>))}

\* The encodings a GetStats call refreshes when it visits them in the order
\* encOrd and the clock ticks before iteration tickAt: those without entry
\* or with a stale entry at the time of their iteration.
StaleKeys(t, encOrd, tickAt) ==
    {encOrd[p] : p \in {q \in 1..Len(encOrd) :
        NeedsRefresh(trackObjs[t].stats.m, encOrd[q],
                     IF tickAt # 0 /\ q >= tickAt THEN now + TickNs ELSE now)}}

\* The iterations before which the clock may tick during a call (a tick
\* before the first iteration is a Tick step before the call).
TickPoints(t) ==
    IF now < MaxTicks * TickNs THEN {0} \cup (2..Cardinality(Keys(trackObjs[t].encodings))) ELSE {0}

\* IncomingStreamTrack.GetStats; what it returns is the cache map itself
\* (line 294), not a copy.
GetStats(t, sourceReadings) ==
    /\ Running
    /\ Live(t)
    /\ \E encOrd \in Perms(Keys(trackObjs[t].encodings)) :
       \E tickAt \in TickPoints(t) :
       \E readings \in [StaleKeys(t, encOrd, tickAt) -> sourceReadings] :
       \E refreshed \in {Refreshed(World, t, encOrd, readings, tickAt)} :
       \E sortOrd \in SortedDescending(refreshed.trk[t].stats.m) :
       \E ranked \in {Ranked(refreshed, t, sortOrd)} :
          Commit([ranked EXCEPT !.result = "i.stats"], "GetStats", t, Nil)
    /\ UNCHANGED rawLayers

GetActiveLayers(t, sourceReadings) ==
    /\ Running
    /\ Live(t)
    /\ \E encOrd \in Perms(Keys(trackObjs[t].encodings)) :
       \E tickAt \in TickPoints(t) :
       \E readings \in [StaleKeys(t, encOrd, tickAt) -> sourceReadings] :
       \E refreshed \in {Refreshed(World, t, encOrd, readings, tickAt)} :
       \E sortOrd \in SortedDescending(refreshed.trk[t].stats.m) :
       \E ranked \in {Ranked(refreshed, t, sortOrd)} :
       \E mapOrd \in Perms(DOMAIN ranked.trk[t].stats.m) :
       \E info \in ActiveLayersInfo(ranked.trk[t].stats.m, mapOrd) :
          Commit([ranked EXCEPT !.result = info], "GetActiveLayers", t, Nil)
    /\ UNCHANGED rawLayers

\* Time passes between two calls.
Tick ==
    /\ Running
    /\ now < MaxTicks * TickNs
    /\ now' = now + TickNs
    /\ call' = [NoCall EXCEPT !.op = "Tick"]
    /\ UNCHANGED <<trackObjs, emits, streamTracks, transport, registered,
                   streamEmits, sess, rawLayers, history>>

\* getStatsFromIncomingSource on the sub-source whose layers are rawLayers.
Aggregate ==
    /\ Running
    /\ Commit([World EXCEPT !.result = getStatsFromIncomingSource(SubSource(0, rawLayers))],
              "getStatsFromIncomingSource", 0, Nil)
    /\ UNCHANGED rawLayers

OutgoingStop ==
    /\ Running
    /\ Commit(StopOutgoing(World), "Outgoing.Stop", -1, Nil)
    /\ UNCHANGED rawLayers

SessionStop ==
    /\ Running
    /\ \E ord \in StopOrdersOf(1) :
          Commit(StopSession(World, ord), "Session.Stop", 0, Nil)
    /\ UNCHANGED rawLayers


NoSession ==
    [incoming |-> 0, outgoing |-> FALSE, session |-> FALSE,
     outStopped |-> TRUE, outEmits |-> 0, emits |-> 0]

-----------------------------------------------------------------------------
(* Spec: an IncomingStream and its tracks.  Init is the state after         *)
(* newIncomingStream on a description without tracks.                       *)

Init ==
    /\ trackObjs = [t \in TrackRefs |-> NoTrack]
    /\ emits = [t \in TrackRefs |-> NoEmits]
    /\ streamTracks = EmptyMap
    /\ transport = TRUE
    /\ registered = {}
    /\ streamEmits = [stopped |-> 0]
    /\ sess = NoSession
    /\ now = 0
    /\ rawLayers = << >>
    /\ call = NoCall
    /\ history = NoHistory

Next ==
    \/ \E d \in Descriptions : CreateTrack(d)
    \/ \E id \in TrackIds : NewTrack(id)
    \/ \E t \in TrackRefs : AddTrack(t)
    \/ \E t \in TrackRefs : TrackStop(t)
    \/ StreamStop

Spec == Init /\ [][Next]_vars

-----------------------------------------------------------------------------
(* SpecSession: a StreamerSession whose incoming track (object 1) may also  *)
(* be added to an IncomingStream.  Init is the state after                  *)
(* NewStreamerSession and newIncomingStream.                                *)

InitSession ==
    /\ trackObjs = [t \in TrackRefs |-> IF t = 1 THEN SessionIncomingTrack("video") ELSE NoTrack]
    /\ emits = [t \in TrackRefs |-> NoEmits]
    /\ streamTracks = EmptyMap
    /\ transport = TRUE
    /\ registered = {}
    /\ streamEmits = [stopped |-> 0]
    /\ sess = NewStreamerSession(1)
    /\ now = 0
    /\ rawLayers = << >>
    /\ call = NoCall
    /\ history = NoHistory

NextSession ==
    \/ SessionStop
    \/ OutgoingStop
    \/ TrackStop(1)
    \/ AddTrack(1)
    \/ StreamStop

SpecSession == InitSession /\ [][NextSession]_vars

-----------------------------------------------------------------------------
(* SpecAttach: one IncomingStreamTrack with two encodings and its consumers. *)
(* Init is the state after newIncomingStreamTrack.                           *)

TwoSources ==
    [k \in {<<"0">>, <<"1">>} |->
        IF k = <<"0">> THEN SourceGroup(1, 11, 12, 0) ELSE SourceGroup(2, 21, 0, 0)]

InitAttach ==
    /\ trackObjs = [t \in TrackRefs |->
                      IF t = 1 THEN newIncomingStreamTrack("video", TRUE, TwoSources) ELSE NoTrack]
    /\ emits = [t \in TrackRefs |-> NoEmits]
    /\ streamTracks = EmptyMap
    /\ transport = TRUE
    /\ registered = {}
    /\ streamEmits = [stopped |-> 0]
    /\ sess = NoSession
    /\ now = 0
    /\ rawLayers = << >>
    /\ call = NoCall
    /\ history = NoHistory

NextAttach ==
    \/ Attached(1)
    \/ Detached(1)
    \/ Refresh(1)
    \/ TrackStop(1)

SpecAttach == InitAttach /\ [][NextAttach]_vars

-----------------------------------------------------------------------------
(* SpecCount: the same track, with the sequence of Attached and Detached    *)
(* calls made on it since construction kept in `history`.                   *)

InitCount ==
    /\ trackObjs = [t \in TrackRefs |->
                      IF t = 1 THEN newIncomingStreamTrack("video", TRUE, TwoSources) ELSE NoTrack]
    /\ emits = [t \in TrackRefs |-> NoEmits]
    /\ streamTracks = EmptyMap
    /\ transport = TRUE
    /\ registered = {}
    /\ streamEmits = [stopped |-> 0]
    /\ sess = NoSession
    /\ now = 0
    /\ rawLayers = << >>
    /\ call = NoCall
    /\ history = RecordedHistory

NextCount ==
    \/ Attached(1)
    \/ Detached(1)

SpecCount == InitCount /\ [][NextCount]_vars

-----------------------------------------------------------------------------
(* SpecStats: one IncomingStreamTrack with two encodings, its stats cache   *)
(* and the clock.  Init is the state after newIncomingStreamTrack.          *)

InitStats ==
    /\ trackObjs = [t \in TrackRefs |->
                      IF t = 1 THEN newIncomingStreamTrack("video", TRUE, TwoSources) ELSE NoTrack]
    /\ emits = [t \in TrackRefs |-> NoEmits]
    /\ streamTracks = EmptyMap
    /\ transport = TRUE
    /\ registered = {}
    /\ streamEmits = [stopped |-> 0]
    /\ sess = NoSession
    /\ now = 0
    /\ rawLayers = << >>
    /\ call = NoCall
    /\ history = NoHistory

NextStats ==
    \/ GetStats(1, Readings)
    \/ GetActiveLayers(1, Readings)
    \/ Tick
    \/ TrackStop(1)

SpecStats == InitStats /\ [][NextStats]_vars

-----------------------------------------------------------------------------
(* SpecRank: one IncomingStreamTrack with three encodings and its stats     *)
(* cache, queried by GetStats only.                                         *)

ThreeSources ==
    [k \in {<<"0">>, <<"1">>, <<"2">>} |->
        IF k = <<"0">> THEN SourceGroup(1, 11, 12, 0)
        ELSE IF k = <<"1">> THEN SourceGroup(2, 21, 0, 0)
        ELSE SourceGroup(3, 31, 0, 0)]

InitRank ==
    /\ trackObjs = [t \in TrackRefs |->
                      IF t = 1 THEN newIncomingStreamTrack("video", TRUE, ThreeSources) ELSE NoTrack]
    /\ emits = [t \in TrackRefs |-> NoEmits]
    /\ streamTracks = EmptyMap
    /\ transport = TRUE
    /\ registered = {}
    /\ streamEmits = [stopped |-> 0]
    /\ sess = NoSession
    /\ now = 0
    /\ rawLayers = << >>
    /\ call = NoCall
    /\ history = NoHistory

NextRank ==
    \/ GetStats(1, BitrateReadings)
    \/ Tick
    \/ TrackStop(1)

SpecRank == InitRank /\ [][NextRank]_vars

-----------------------------------------------------------------------------
(* SpecAgg: getStatsFromIncomingSource applied to a receive sub-source.     *)
(* Init draws the raw layers: up to MaxLayers samples with distinct         *)
(* (spatial, temporal) ids.                                                 *)

LayerIds == {0, 1}

Samples == {[bytes |-> 100, packets |-> 1, bitrate |-> 10],
            [bytes |-> 300, packets |-> 2, bitrate |-> 40]}

RawLayerChoices ==
    {RawLayer(sid, tid, c.bytes, c.packets, c.bitrate) :
        sid \in LayerIds, tid \in LayerIds, c \in Samples}

RawLayerLists ==
    {ls \in UNION {[1..n -> RawLayerChoices] : n \in 0..MaxLayers} :
        \A i, j \in 1..Len(ls) :
            i # j => \/ ls[i].SpatialLayerId # ls[j].SpatialLayerId
                     \/ ls[i].TemporalLayerId # ls[j].TemporalLayerId}

InitAgg ==
    /\ trackObjs = [t \in TrackRefs |-> NoTrack]
    /\ emits = [t \in TrackRefs |-> NoEmits]
    /\ streamTracks = EmptyMap
    /\ transport = TRUE
    /\ registered = {}
    /\ streamEmits = [stopped |-> 0]
    /\ sess = NoSession
    /\ now = 0
    /\ rawLayers \in RawLayerLists
    /\ call = NoCall
    /\ history = NoHistory

NextAgg == Aggregate

SpecAgg == InitAgg /\ [][NextAgg]_vars

-----------------------------------------------------------------------------
(* SpecBuild: CreateTrack on the descriptions a signaling layer produces    *)
(* (rids non-empty and distinct, SSRCs non-zero), and on the descriptors of *)
(* the tracks built from them.                                              *)

Rids == {<<"h">>, <<"l">>}

\* The "ssrc" parameter of a signaled encoding: absent, numeric or not.
SsrcParams == {NoParam, Param(<<"1", "1">>), Param(<<"2", "1">>), Param(<<"x">>), Param(<<"1", "x">>)}

GroupsFor ==
    {<< >>,
     <<[semantics |-> "FID", ssrcs |-> <<11, 12>>]>>,
     <<[semantics |-> "SIM", ssrcs |-> <<11, 21>>],
       [semantics |-> "FID", ssrcs |-> <<11, 12>>],
       [semantics |-> "FEC-FR", ssrcs |-> <<21, 23>>]>>}

RidDescriptions ==
    {[id |-> "video", ssrcs |-> <<11, 12, 21, 23>>, groups |-> g,
      encodings |-> << <<[id |-> <<"h">>, ssrc |-> ph]>>, <<[id |-> <<"l">>, ssrc |-> pl]>> >>] :
        g \in GroupsFor, ph \in SsrcParams, pl \in SsrcParams}
    \cup
    {[id |-> "video", ssrcs |-> <<11, 12>>, groups |-> g,
      encodings |-> << <<[id |-> <<"h">>, ssrc |-> ph]>> >>] :
        g \in GroupsFor, ph \in SsrcParams}

SimDescriptions ==
    {[id |-> "video", ssrcs |-> <<11, 12, 21, 23>>, groups |-> g, encodings |-> << >>] :
        g \in {<<[semantics |-> "SIM", ssrcs |-> <<11, 21>>]>>,
               <<[semantics |-> "SIM", ssrcs |-> <<11, 21>>],
                 [semantics |-> "FID", ssrcs |-> <<11, 12>>],
                 [semantics |-> "FEC-FR", ssrcs |-> <<21, 23>>]>>,
               <<[semantics |-> "FID", ssrcs |-> <<21, 22>>],
                 [semantics |-> "SIM", ssrcs |-> <<21, 11>>]>>}}

FlatDescriptions ==
    {[id |-> "video", ssrcs |-> <<11, 12, 13>>, groups |-> g, encodings |-> << >>] :
        g \in {<< >>,
               <<[semantics |-> "FID", ssrcs |-> <<11, 12>>]>>,
               <<[semantics |-> "FEC-FR", ssrcs |-> <<11, 13>>]>>,
               <<[semantics |-> "FID", ssrcs |-> <<11, 12>>],
                 [semantics |-> "FEC-FR", ssrcs |-> <<11, 13>>]>>}}

BuildDescriptions == RidDescriptions \cup SimDescriptions \cup FlatDescriptions

\* stream.CreateTrack(track.GetTrackInfo().Clone()) for a track that has
\* not stopped.
RecreateTrack(t) ==
    /\ Live(t)
    /\ trackObjs[t].receiver
    /\ \E ord \in Perms(Keys(trackObjs[t].encodings)) :
          CreateTrack(GetTrackInfo(trackObjs[t].id, trackObjs[t].encodings.m, ord))

InitBuild ==
    /\ trackObjs = [t \in TrackRefs |-> NoTrack]
    /\ emits = [t \in TrackRefs |-> NoEmits]
    /\ streamTracks = EmptyMap
    /\ transport = TRUE
    /\ registered = {}
    /\ streamEmits = [stopped |-> 0]
    /\ sess = NoSession
    /\ now = 0
    /\ rawLayers = << >>
    /\ call = NoCall
    /\ history = NoHistory

\* The stream receives one signaled description; every later track is
\* built from the descriptor of a track.
NextBuild ==
    \/ FreeSlots = TrackRefs /\ \E d \in BuildDescriptions : CreateTrack(d)
    \/ \E t \in TrackRefs : RecreateTrack(t)

SpecBuild == InitBuild /\ [][NextBuild]_vars

-----------------------------------------------------------------------------
(* Properties *)

Count(seq, x) == Cardinality({i \in 1..Len(seq) : seq[i] = x})

Positions(seq, x) == {i \in 1..Len(seq) : seq[i] = x}

\* Every occurrence of x in seq lies before every occurrence of y.
Before(seq, x, y) == \A i \in Positions(seq, x), j \in Positions(seq, y) : i < j

objectVars == <<trackObjs, emits, streamTracks, transport, registered, streamEmits, sess>>

\* C1: while the reference count stays >= 0, an Attached call emits
\* "attached" exactly once when it moves the count from 0 to 1, a Detached
\* call emits "detached" exactly once when it moves the count from 1 to 0,
\* and every other Attached / Detached call emits nothing.
C1_AttachDetachEmission ==
    [][\A t \in TrackRefs :
        (/\ call'.op \in {"Attached", "Detached"}
         /\ call'.target = t
         /\ trackObjs[t].counter >= 0
         /\ trackObjs'[t].counter >= 0)
        => LET from == trackObjs[t].counter
               to   == trackObjs'[t].counter
               att  == call'.op = "Attached" /\ from = 0 /\ to = 1
               det  == call'.op = "Detached" /\ from = 1 /\ to = 0
           IN  /\ call'.emitted = IF att THEN << <<"attached", t>> >>
                                  ELSE IF det THEN << <<"detached", t>> >>
                                  ELSE << >>
               /\ emits'[t].attached = emits[t].attached + (IF att THEN 1 ELSE 0)
               /\ emits'[t].detached = emits[t].detached + (IF det THEN 1 ELSE 0)
               /\ emits'[t].stopped = emits[t].stopped]_vars

\* A second attach/detach cycle: the Detached call that took the count from
\* 1 to 0 emitted "detached", after intermediate calls that emitted nothing.
C1_Witness ==
    /\ call.op = "Detached"
    /\ call.emitted = << <<"detached", 1>> >>
    /\ trackObjs[1].counter = 0
    /\ emits[1].attached = 2
    /\ emits[1].detached = 2

\* C2: any number of Stop calls on one track emit exactly one "stopped" in
\* total; a Stop call that finds the receiver reference cleared emits
\* nothing, releases nothing and changes no state.
C2_TrackStopOnce ==
    /\ [](\A t \in TrackRefs : Live(t) =>
            /\ emits[t].stopped <= 1
            /\ (~trackObjs[t].receiver => emits[t].stopped = 1))
    /\ [][\A t \in TrackRefs :
            (call'.op = "Track.Stop" /\ call'.target = t) =>
                IF trackObjs[t].receiver
                THEN /\ Count(call'.emitted, <<"stopped", t>>) = 1
                     /\ emits[t].stopped = 0
                     /\ emits'[t].stopped = 1
                ELSE /\ call'.emitted = << >>
                     /\ call'.log = << >>
                     /\ UNCHANGED objectVars]_vars

\* A Stop call on a track that had already stopped.
C2_Witness ==
    /\ call.op = "Track.Stop"
    /\ call.emitted = << >>
    /\ call.log = << >>
    /\ ~trackObjs[call.target].receiver
    /\ emits[call.target].stopped = 1

\* C3: IncomingStream.Stop on a stream that has not stopped stops every
\* track in its track map, leaves the map empty, emits the stream's
\* "stopped" exactly once (after the tracks) and leaves the transport
\* reference cleared; a later Stop call stops no track, emits nothing and
\* changes nothing.
C3_StreamStop ==
    /\ [](streamEmits.stopped = IF transport THEN 0 ELSE 1)
    /\ [][call'.op = "Stream.Stop" =>
            IF transport
            THEN /\ \A k \in DOMAIN streamTracks :
                       LET t == streamTracks[k] IN
                       /\ Count(call'.log, <<"track.Stop", t, 0>>) = 1
                       /\ ~trackObjs'[t].receiver
                       /\ emits'[t].stopped = 1
                       /\ Count(call'.emitted, <<"stopped", t>>) = (IF trackObjs[t].receiver THEN 1 ELSE 0)
                 /\ DOMAIN streamTracks' = {}
                 /\ Count(call'.emitted, <<"stopped", 0>>) = 1
                 /\ call'.emitted[Len(call'.emitted)] = <<"stopped", 0>>
                 /\ streamEmits'.stopped = streamEmits.stopped + 1
                 /\ ~transport'
            ELSE /\ call'.emitted = << >>
                 /\ call'.log = << >>
                 /\ UNCHANGED objectVars]_vars

\* A Stop that stopped two tracks of the map, one of them with two sources.
C3_Witness ==
    /\ call.op = "Stream.Stop"
    /\ Count(call.log, <<"track.Stop", 1, 0>>) = 1
    /\ Count(call.log, <<"track.Stop", 2, 0>>) = 1
    /\ call.emitted[3] = <<"stopped", 0>>
    /\ DOMAIN streamTracks = {}
    /\ ~transport

\* A Stop call on a stream that had already stopped.
C3_WitnessNoOp ==
    /\ call.op = "Stream.Stop"
    /\ call.emitted = << >>
    /\ ~transport

\* C4: StreamerSession.Stop on a session that has not stopped stops the
\* incoming and the outgoing track (each at most once), then ends the RTP
\* session, then emits the session's "stopped" exactly once, and leaves the
\* session reference cleared; every later Stop call ends no session and
\* emits nothing.
C4_SessionStop ==
    /\ [](/\ sess.emits = (IF sess.session THEN 0 ELSE 1)
          /\ emits[1].stopped <= 1
          /\ sess.outEmits <= 1)
    /\ [][call'.op = "Session.Stop" =>
            IF sess.session
            THEN /\ Count(call'.log, <<"incoming.Stop", 1, 0>>) = (IF sess.incoming # 0 THEN 1 ELSE 0)
                 /\ Count(call'.log, <<"outgoing.Stop", -1, 0>>) = (IF sess.outgoing THEN 1 ELSE 0)
                 /\ Count(call'.log, <<"session.End", 0, 0>>) = 1
                 /\ Count(call'.log, <<"EmitSync session stopped", 0, 0>>) = 1
                 /\ Count(call'.emitted, <<"session stopped", 0>>) = 1
                 /\ Before(call'.log, <<"incoming.Stop", 1, 0>>, <<"session.End", 0, 0>>)
                 /\ Before(call'.log, <<"EmitSync stopped", 1, 0>>, <<"session.End", 0, 0>>)
                 /\ Before(call'.log, <<"outgoing.Stop", -1, 0>>, <<"session.End", 0, 0>>)
                 /\ Before(call'.log, <<"EmitSync stopped", -1, 0>>, <<"session.End", 0, 0>>)
                 /\ Before(call'.log, <<"session.End", 0, 0>>, <<"EmitSync session stopped", 0, 0>>)
                 /\ ~trackObjs'[1].receiver
                 /\ emits'[1].stopped = 1
                 /\ sess'.outStopped
                 /\ sess'.outEmits = 1
                 /\ sess'.emits = 1
                 /\ ~sess'.session
            ELSE /\ call'.emitted = << >>
                 /\ call'.log = << >>
                 /\ UNCHANGED objectVars]_vars

\* A Stop that stopped both tracks and ended the session.
C4_Witness ==
    /\ call.op = "Session.Stop"
    /\ Count(call.log, <<"incoming.Stop", 1, 0>>) = 1
    /\ Count(call.log, <<"outgoing.Stop", -1, 0>>) = 1
    /\ Count(call.log, <<"session.End", 0, 0>>) = 1
    /\ sess.emits = 1
    /\ ~sess.session

\* C5: AddTrack with a track whose id is a key of the track map returns the
\* duplicate-id error and changes nothing (the map keeps the track it held,
\* no listener is registered on the rejected track); otherwise it returns
\* no error and the track is stored under its id.
C5_AddTrack ==
    [][\A t \in TrackRefs :
        (call'.op = "AddTrack" /\ call'.target = t) =>
            IF trackObjs[t].id \in DOMAIN streamTracks
            THEN /\ call'.ret = "Track id already present in stream"
                 /\ UNCHANGED objectVars
            ELSE /\ call'.ret = Nil
                 /\ DOMAIN streamTracks' = DOMAIN streamTracks \cup {trackObjs[t].id}
                 /\ streamTracks'[trackObjs[t].id] = t
                 /\ \A k \in DOMAIN streamTracks : streamTracks'[k] = streamTracks[k]]_vars

\* A rejected AddTrack of a track whose id another track holds in the map.
C5_Witness ==
    /\ call.op = "AddTrack"
    /\ call.ret = "Track id already present in stream"
    /\ trackObjs[call.target].id \in DOMAIN streamTracks
    /\ streamTracks[trackObjs[call.target].id] # call.target
    /\ trackObjs[call.target].once = << >>

\* C6: after every GetStats call, over all entries of the cache: an entry
\* with bitrate 0 has simulcast index -1; the entries with bitrate > 0 carry
\* exactly the indices 1..K, each once; of two entries with different
\* positive bitrates the one with the higher bitrate has the smaller index.
RankedByBitrate(stats) ==
    LET positive == {id \in DOMAIN stats : stats[id].Bitrate > 0} IN
    /\ \A id \in (DOMAIN stats) \ positive : stats[id].SimulcastIdx = -1
    /\ {stats[id].SimulcastIdx : id \in positive} = 1..Cardinality(positive)
    /\ \A a, b \in positive :
          stats[a].Bitrate > stats[b].Bitrate => stats[a].SimulcastIdx < stats[b].SimulcastIdx

C6_SimulcastIndexes ==
    \A t \in TrackRefs : Live(t) => RankedByBitrate(trackObjs[t].stats.m)

\* A GetStats call that refreshed one entry and reused the others left the
\* bitrates 0, 50, 200 ranked -1, 2, 1.
C6_Witness ==
    /\ call.op = "GetStats"
    /\ Len(call.log) = 1
    /\ \E a, b, c \in DOMAIN trackObjs[1].stats.m :
          LET stats == trackObjs[1].stats.m IN
          /\ stats[a].Bitrate = 0 /\ stats[a].SimulcastIdx = -1
          /\ stats[b].Bitrate = 50 /\ stats[b].SimulcastIdx = 2
          /\ stats[c].Bitrate = 200 /\ stats[c].SimulcastIdx = 1
          /\ stats[c].timestamp = now
          /\ stats[b].timestamp < now

\* C7: in a GetStats call, an encoding whose cached entry is not older than
\* 200 ms keeps that entry with its timestamp and its source is not
\* updated; an encoding without entry, or whose entry is older than 200 ms,
\* has its source updated and gets a new entry stamped with the current
\* time.  (The clock reads now when the call starts and now' when it
\* returns.)
SameEntry(old, new) ==
    /\ new.timestamp = old.timestamp
    /\ new.Bitrate = old.Bitrate
    /\ new.Total = old.Total
    /\ new.Media.Bitrate = old.Media.Bitrate
    /\ Len(new.Media.Layers) = Len(old.Media.Layers)
    /\ \A i \in 1..Len(old.Media.Layers) :
          [new.Media.Layers[i] EXCEPT !.SimulcastIdx = 0] = [old.Media.Layers[i] EXCEPT !.SimulcastIdx = 0]
    /\ new.Rtx = old.Rtx
    /\ new.Fec = old.Fec

C7_Freshness ==
    [][\A t \in TrackRefs :
        (call'.op \in {"GetStats", "GetActiveLayers"} /\ call'.target = t) =>
            \A id \in Keys(trackObjs[t].encodings) :
                LET old     == trackObjs[t].stats.m
                    new     == trackObjs'[t].stats.m
                    update  == <<"source.Update", t, trackObjs[t].encodings.m[id].n>>
                    reused  == /\ id \in DOMAIN old
                               /\ Count(call'.log, update) = 0
                               /\ SameEntry(old[id], new[id])
                    renewed == /\ Count(call'.log, update) = 1
                               /\ new[id].timestamp >= now
                               /\ new[id].timestamp <= now'
                               /\ (id \in DOMAIN old => new[id].timestamp - old[id].timestamp > FreshnessWindowNs)
                IN  /\ id \in DOMAIN new
                    /\ reused \/ renewed
                    /\ (id \in DOMAIN old /\ now' - old[id].timestamp <= FreshnessWindowNs) => reused
                    /\ (id \notin DOMAIN old \/ now - old[id].timestamp > FreshnessWindowNs) => renewed]_vars

\* A GetStats call that kept an entry exactly 200 ms old and, after the
\* clock moved on, renewed the other entry with the same counters.
C7_Witness ==
    /\ call.op = "GetStats"
    /\ Len(call.log) = 1
    /\ \E a, b \in DOMAIN trackObjs[1].stats.m :
          LET stats == trackObjs[1].stats.m IN
          /\ stats[a].timestamp = 0
          /\ stats[b].timestamp = now
          /\ now = 2 * FreshnessWindowNs
          /\ stats[a].Bitrate = stats[b].Bitrate

\* C8: getStatsFromIncomingSource on raw layers with unique (spatial,
\* temporal) ids returns one aggregated layer per raw layer, whose bytes,
\* packets and bitrate are the sums over the raw layers with spatial id <=
\* and temporal id <= its ids; no raw layer gives no layer, and a single
\* raw layer (0,0) gives one layer equal to it.
RECURSIVE SumOver(_, _, _)
SumOver(S, raw, field) ==
    IF S = {} THEN 0
    ELSE LET i == CHOOSE i \in S : TRUE IN raw[i][field] + SumOver(S \ {i}, raw, field)

Below(raw, i) ==
    {j \in 1..Len(raw) : /\ raw[j].SpatialLayerId <= raw[i].SpatialLayerId
                         /\ raw[j].TemporalLayerId <= raw[i].TemporalLayerId}

C8_LayerAggregation ==
    call.op = "getStatsFromIncomingSource" =>
        LET out == call.result.Layers IN
        /\ Len(out) = Len(rawLayers)
        /\ \A i \in 1..Len(rawLayers) :
              /\ out[i].SpatialLayerId = rawLayers[i].SpatialLayerId
              /\ out[i].TemporalLayerId = rawLayers[i].TemporalLayerId
              /\ out[i].TotalBytes = SumOver(Below(rawLayers, i), rawLayers, "TotalBytes")
              /\ out[i].NumPackets = SumOver(Below(rawLayers, i), rawLayers, "NumPackets")
              /\ out[i].Bitrate = SumOver(Below(rawLayers, i), rawLayers, "Bitrate")
        /\ (Len(rawLayers) = 1 /\ rawLayers[1].SpatialLayerId = 0 /\ rawLayers[1].TemporalLayerId = 0)
              => /\ Len(out) = 1
                 /\ out[1].TotalBytes = rawLayers[1].TotalBytes
                 /\ out[1].NumPackets = rawLayers[1].NumPackets
                 /\ out[1].Bitrate = rawLayers[1].Bitrate
        /\ rawLayers = << >> => out = << >>

\* Three raw layers (0,0), (0,1), (1,0): the layer (0,1) sums two of them,
\* the layer (0,0) only itself.
C8_Witness ==
    /\ call.op = "getStatsFromIncomingSource"
    /\ Len(rawLayers) = 3
    /\ \E i, j \in 1..3 :
          /\ rawLayers[i].SpatialLayerId = 0 /\ rawLayers[i].TemporalLayerId = 1
          /\ rawLayers[j].SpatialLayerId = 0 /\ rawLayers[j].TemporalLayerId = 0
          /\ call.result.Layers[i].TotalBytes = rawLayers[i].TotalBytes + rawLayers[j].TotalBytes
          /\ call.result.Layers[j].TotalBytes = rawLayers[j].TotalBytes
          /\ \E k \in 1..3 : rawLayers[k].SpatialLayerId = 1 /\ rawLayers[k].TemporalLayerId = 0

\* C9: GetActiveLayers places every encoding of the stats cache in exactly
\* one of the Active and Inactive lists: in Inactive (encoding id only) if
\* and only if its cached bitrate is 0, otherwise in Active with the bitrate
\* and the simulcast index of its cache entry.
Occurrences(list, id) == {i \in 1..Len(list) : list[i].EncodingId = id}

C9_ActiveInactive ==
    \A t \in TrackRefs :
        (call.op = "GetActiveLayers" /\ call.target = t) =>
            LET stats == trackObjs[t].stats.m
                info  == call.result
            IN  /\ \A id \in DOMAIN stats :
                      LET act == Occurrences(info.Active, id)
                          ina == Occurrences(info.Inactive, id)
                      IN  /\ Cardinality(act) + Cardinality(ina) = 1
                          /\ (ina # {}) <=> (stats[id].Bitrate = 0)
                          /\ \A i \in ina : info.Inactive[i] = InactiveEncoding(id)
                          /\ \A i \in act : /\ info.Active[i].Bitrate = stats[id].Bitrate
                                            /\ info.Active[i].SimulcastIdx = stats[id].SimulcastIdx
                /\ Len(info.Active) + Len(info.Inactive) = Cardinality(DOMAIN stats)

\* One encoding idle and one active, ranked first.
C9_Witness ==
    /\ call.op = "GetActiveLayers"
    /\ Len(call.result.Active) = 1
    /\ Len(call.result.Inactive) = 1
    /\ call.result.Active[1].Bitrate = 200
    /\ call.result.Active[1].SimulcastIdx = 1
    /\ Len(call.result.Active[1].Layers) = 2

\* C10: in GetActiveLayers an active encoding without aggregated layers
\* yields exactly one synthesized layer, with the sentinel spatial and
\* temporal ids, the encoding's id, simulcast index and bitrate, as its one
\* entry of the global layer list; the global list holds at least one entry
\* for every active encoding and none for an inactive one.
C10_SynthesizedLayer ==
    \A t \in TrackRefs :
        (call.op = "GetActiveLayers" /\ call.target = t) =>
            LET stats == trackObjs[t].stats.m
                info  == call.result
            IN  \A id \in DOMAIN stats :
                   LET rows == Occurrences(info.Layers, id) IN
                   /\ stats[id].Bitrate = 0 => rows = {}
                   /\ stats[id].Bitrate > 0 => rows # {}
                   /\ (stats[id].Bitrate > 0 /\ stats[id].Media.Layers = << >>) =>
                         /\ Cardinality(rows) = 1
                         /\ \A i \in rows :
                               /\ info.Layers[i].SpatialLayerId = MaxLayerId
                               /\ info.Layers[i].TemporalLayerId = MaxLayerId
                               /\ info.Layers[i].SimulcastIdx = stats[id].SimulcastIdx
                               /\ info.Layers[i].Bitrate = stats[id].Bitrate
                   /\ (stats[id].Bitrate > 0 /\ stats[id].Media.Layers # << >>) =>
                         /\ Cardinality(rows) = Len(stats[id].Media.Layers)
                         /\ \A i \in rows : info.Layers[i].SpatialLayerId # MaxLayerId

\* An active encoding without layers beside one with two layers: three rows
\* in the global list, the synthesized one first.
C10_Witness ==
    /\ call.op = "GetActiveLayers"
    /\ Len(call.result.Layers) = 3
    /\ call.result.Layers[1].SpatialLayerId = MaxLayerId
    /\ call.result.Layers[1].TemporalLayerId = MaxLayerId
    /\ call.result.Layers[1].Bitrate = 50
    /\ call.result.Layers[1].SimulcastIdx = 2
    /\ call.result.Layers[3].SpatialLayerId = 0

\* C11: in CreateTrack a description with rid encodings gets its sources
\* from the rid strategy only: one registered group per resolvable encoding,
\* keyed by its rid, none keyed by a position of the SIM group and none
\* keyed by the empty string, also when a SIM group is present; position
\* keys appear only without encodings, the empty key only without
\* encodings and without SIM group.
ResolvableRids(d) ==
    {e.id : e \in {x \in {Flatten(d.encodings)[i] : i \in 1..Len(Flatten(d.encodings))} :
                      ~(x.ssrc.has /\ ParseUint(x.ssrc.val).err)}}

PositionKeys(d) ==
    IF HasSourceGroup(d, "SIM")
    THEN {FormatUint(j) : j \in 0..(Len(GetSourceGroup(d, "SIM").ssrcs) - 1)}
    ELSE {}

RegisteredFor(t) == {r[2] : r \in {x \in registered : x[1] = t}}

C11_StrategySelection ==
    (call.op = "CreateTrack" /\ call.ret # "panic") =>
        LET d    == call.arg
            t    == call.target
            keys == Keys(trackObjs[t].encodings)
        IN  /\ Len(d.encodings) > 0 =>
                  /\ keys = ResolvableRids(d)
                  /\ keys \cap PositionKeys(d) = {}
                  /\ << >> \notin keys
                  /\ Cardinality(RegisteredFor(t)) = Cardinality(keys)
            /\ keys \cap PositionKeys(d) # {} => Len(d.encodings) = 0
            /\ << >> \in keys => (Len(d.encodings) = 0 /\ ~HasSourceGroup(d, "SIM"))
            /\ (Len(d.encodings) = 0 /\ HasSourceGroup(d, "SIM")) => keys = PositionKeys(d)
            /\ (Len(d.encodings) = 0 /\ ~HasSourceGroup(d, "SIM")) => keys = {<< >>}

\* A description with two rid encodings and a SIM group: the sources are
\* keyed by the rids, and the FID companion of the group is wired in.
C11_Witness ==
    /\ call.op = "CreateTrack"
    /\ HasSourceGroup(call.arg, "SIM")
    /\ Len(call.arg.encodings) = 2
    /\ Keys(trackObjs[call.target].encodings) = {<<"h">>, <<"l">>}
    /\ trackObjs[call.target].encodings.m[<<"h">>].media = 11
    /\ trackObjs[call.target].encodings.m[<<"h">>].rtx = 12
    /\ Cardinality(RegisteredFor(call.target)) = 2

\* C12 (as stated): CreateTrack on the descriptor of a track built by
\* CreateTrack yields a track with the same set of SSRCs (media, rtx and fec
\* of every encoding) and the same set of encoding keys.
SsrcsOf(t) ==
    UNION {{trackObjs[t].encodings.m[k].media, trackObjs[t].encodings.m[k].rtx,
            trackObjs[t].encodings.m[k].fec} : k \in Keys(trackObjs[t].encodings)}

DescriptorOf(t, d) ==
    /\ Live(t)
    /\ trackObjs[t].receiver
    /\ \E ord \in Perms(Keys(trackObjs[t].encodings)) :
          d = GetTrackInfo(trackObjs[t].id, trackObjs[t].encodings.m, ord)

C12_RoundTrip ==
    call.op = "CreateTrack" =>
        \A t \in TrackRefs \ {call.target} :
            DescriptorOf(t, call.arg) =>
                /\ call.ret # "panic"
                /\ Live(call.target)
                /\ Keys(trackObjs[call.target].encodings) = Keys(trackObjs[t].encodings)
                /\ SsrcsOf(call.target) = SsrcsOf(t)

\* C12 (what holds): the round trip preserves the keys and the SSRCs for
\* every track that has at least one SSRC in its descriptor or at least one
\* encoding with a rid.
C12_RoundTripOfNonEmpty ==
    call.op = "CreateTrack" =>
        \A t \in TrackRefs \ {call.target} :
            (DescriptorOf(t, call.arg) /\ Keys(trackObjs[t].encodings) # {}) =>
                /\ call.ret # "panic"
                /\ Live(call.target)
                /\ Keys(trackObjs[call.target].encodings) = Keys(trackObjs[t].encodings)
                /\ SsrcsOf(call.target) = SsrcsOf(t)

\* A track built by the SIM strategy, rebuilt by the rid strategy from its
\* descriptor, with the same keys "0", "1" and the same SSRCs.
C12_Witness ==
    /\ call.op = "CreateTrack"
    /\ call.target = 2
    /\ DescriptorOf(1, call.arg)
    /\ ~HasSourceGroup(call.arg, "SIM")
    /\ Len(call.arg.encodings) = 2
    /\ Keys(trackObjs[2].encodings) = {<<"0">>, <<"1">>}
    /\ SsrcsOf(2) = {11, 12, 21, 23, 0}
    /\ SsrcsOf(1) = SsrcsOf(2)

\* The descriptor of a track without encodings makes CreateTrack panic.
C12_Panic ==
    /\ call.op = "CreateTrack"
    /\ call.ret = "panic"
    /\ DescriptorOf(1, call.arg)
    /\ Keys(trackObjs[1].encodings) = {}

\* C14: in the rid strategy an encoding with a non-numeric "ssrc" parameter
\* gets no entry in the sources and no group registered with the
\* transport; every other signaled encoding gets its group registered and
\* keyed by its rid; CreateTrack returns the track, stores it under its id
\* and emits "track", also when no encoding was resolvable.
MalformedRids(d) ==
    {e.id : e \in {x \in {Flatten(d.encodings)[i] : i \in 1..Len(Flatten(d.encodings))} :
                      x.ssrc.has /\ ParseUint(x.ssrc.val).err}}

C14_MalformedSsrc ==
    (call.op = "CreateTrack" /\ Len(call.arg.encodings) > 0) =>
        LET d    == call.arg
            t    == call.target
            keys == Keys(trackObjs[t].encodings)
        IN  /\ call.ret = Nil
            /\ Live(t)
            /\ keys \cap MalformedRids(d) = {}
            /\ keys = ResolvableRids(d)
            /\ RegisteredFor(t) = {trackObjs[t].encodings.m[k].n : k \in keys}
            /\ Cardinality(RegisteredFor(t)) = Cardinality(ResolvableRids(d))
            /\ Count(call.log, <<"EmitSync track", t, 0>>) = 1
            /\ call.emitted = << <<"track", t>> >>
            /\ trackObjs[t].id \in DOMAIN streamTracks
            /\ streamTracks[trackObjs[t].id] = t

\* One encoding skipped for its parameter "1x", the other one registered
\* on SSRC 21.
C14_Witness ==
    /\ call.op = "CreateTrack"
    /\ MalformedRids(call.arg) = {<<"h">>}
    /\ Keys(trackObjs[call.target].encodings) = {<<"l">>}
    /\ trackObjs[call.target].encodings.m[<<"l">>].media = 21
    /\ Cardinality(RegisteredFor(call.target)) = 1
    /\ call.emitted = << <<"track", call.target>> >>

\* No encoding resolvable: the track exists without encodings.
C14_WitnessEmpty ==
    /\ call.op = "CreateTrack"
    /\ MalformedRids(call.arg) = {<<"h">>, <<"l">>}
    /\ Keys(trackObjs[call.target].encodings) = {}
    /\ streamTracks["video"] = call.target

-----------------------------------------------------------------------------
(* Reference counting over a fixed sequence of calls (SpecCount).           *)

AttachCall == <<"Attached", 1>>
DetachCall == <<"Detached", 1>>
ThreeAttachTwoDetach == <<AttachCall, AttachCall, AttachCall, DetachCall, DetachCall>>
ThenThirdDetach == Append(ThreeAttachTwoDetach, DetachCall)
ThenFourthDetach == Append(ThenThirdDetach, DetachCall)

\* After three Attached and two Detached calls on a fresh track the count is
\* positive, "attached" was emitted once and "detached" never.
AttachedAfterThreeAndTwo ==
    history.ops = ThreeAttachTwoDetach =>
        /\ trackObjs[1].counter = 1
        /\ emits[1].attached = 1
        /\ emits[1].detached = 0

\* C13 (as stated): three Attached and two Detached calls leave a fresh track
\* attached with "attached" emitted once and "detached" never, and the fourth
\* Detached call then emits "detached" exactly once.
C13_FourthDetachEmits ==
    /\ AttachedAfterThreeAndTwo
    /\ history.ops = ThenFourthDetach => call.emitted = << <<"detached", 1>> >>

\* C13 (amended): three Attached and two Detached calls leave a fresh track
\* attached with "attached" emitted once and "detached" never; the third
\* Detached call emits "detached" exactly once, and the fourth emits nothing
\* and takes the count to -1.
C13_ThirdDetachEmits ==
    /\ AttachedAfterThreeAndTwo
    /\ history.ops = ThenThirdDetach =>
           /\ call.emitted = << <<"detached", 1>> >>
           /\ trackObjs[1].counter = 0
           /\ emits[1].attached = 1
           /\ emits[1].detached = 1
    /\ history.ops = ThenFourthDetach =>
           /\ call.emitted = << >>
           /\ trackObjs[1].counter = -1
           /\ emits[1].attached = 1
           /\ emits[1].detached = 1

C13_Witness ==
    /\ history.ops = ThenFourthDetach
    /\ call.op = "Detached"
    /\ trackObjs[1].counter = -1

-----------------------------------------------------------------------------
(* Teardown of the tracks made by CreateTrack (Spec).                       *)

\* The track t carries CreateTrack's one-shot "stopped" listener.
MadeByCreateTrack(t) ==
    /\ Live(t)
    /\ \E i \in DOMAIN trackObjs[t].once : trackObjs[t].once[i].kind = "createTrack"

EncodingSources(t) ==
    {trackObjs[t].encodings.m[k].n : k \in Keys(trackObjs[t].encodings)}

\* C15: whenever a track made by CreateTrack emits "stopped", by its own
\* Stop or by IncomingStream.Stop, the call completes with the track's id
\* removed from the stream's track map and each of the track's
\* source-groups unregistered from the transport exactly once, and the
\* stopped track is no longer in the track map.
C15_TeardownCascade ==
    [][\A t \in TrackRefs :
          (MadeByCreateTrack(t) /\ Count(call'.emitted, <<"stopped", t>>) > 0) =>
              /\ call'.ret # "panic"
              /\ trackObjs[t].id \notin DOMAIN streamTracks'
              /\ \A k \in DOMAIN streamTracks' : streamTracks'[k] # t
              /\ \A n \in EncodingSources(t) :
                    /\ Count(call'.log, <<"RemoveIncomingSourceGroup", t, n>>) = 1
                    /\ <<t, n>> \notin registered']_vars

\* The Stop of a track made by CreateTrack whose listener found the
\* transport reference cleared.
C15_Panic ==
    /\ call.op = "Track.Stop"
    /\ call.ret = "panic"
    /\ Count(call.emitted, <<"stopped", call.target>>) = 1
    /\ <<call.target, 1>> \in registered
    /\ ~transport

\* C19: in every teardown path of a track made by CreateTrack, each of its
\* source-groups is unregistered from the transport
\* (RemoveIncomingSourceGroup) before it is destroyed
\* (DeleteRTPIncomingSourceGroup), never after.
C19_RemoveBeforeDelete ==
    [][\A t \in TrackRefs : MadeByCreateTrack(t) =>
          \A n \in EncodingSources(t) :
              \A j \in Positions(call'.log, <<"DeleteRTPIncomingSourceGroup", t, n>>) :
                  /\ \E i \in Positions(call'.log, <<"RemoveIncomingSourceGroup", t, n>>) : i < j
                  /\ \A i \in Positions(call'.log, <<"RemoveIncomingSourceGroup", t, n>>) : i < j]_vars

\* A Stop that handed a source-group to the transport's
\* RemoveIncomingSourceGroup after destroying it.
C19_RemoveAfterDelete ==
    /\ call.op = "Track.Stop"
    /\ call.ret # "panic"
    /\ \E i, j \in DOMAIN call.log :
          /\ i < j
          /\ call.log[i] = <<"DeleteRTPIncomingSourceGroup", call.target, 1>>
          /\ call.log[j] = <<"RemoveIncomingSourceGroup", call.target, 1>>

\* C20: every track returned by CreateTrack that has not stopped is in the
\* stream's track map under its id, also when CreateTrack was called more
\* than once with the same id, so that IncomingStream.Stop leaves every
\* track the stream created stopped.
C20_MapHoldsLiveTracks ==
    /\ [](\A t \in TrackRefs : (MadeByCreateTrack(t) /\ trackObjs[t].receiver) =>
            /\ trackObjs[t].id \in DOMAIN streamTracks
            /\ streamTracks[trackObjs[t].id] = t)
    /\ [][(call'.op = "Stream.Stop" /\ transport) =>
            \A t \in TrackRefs : MadeByCreateTrack(t) => ~trackObjs'[t].receiver]_vars

\* An IncomingStream.Stop that left a track made by CreateTrack running.
C20_LeftRunning ==
    /\ call.op = "Stream.Stop"
    /\ call.ret # "panic"
    /\ ~transport
    /\ \E t \in TrackRefs : MadeByCreateTrack(t) /\ trackObjs[t].receiver

-----------------------------------------------------------------------------
(* The reference count under unbalanced calls (SpecAttach).                 *)

\* C18: for every sequence of Attached and Detached calls on a track,
\* including sequences with more Detached than Attached calls, the
\* reference count is never negative, and the number of "attached"
\* emissions minus the number of "detached" emissions is 0 or 1, and is 1
\* exactly when the reference count is >= 1.
C18_CountNeverNegative ==
    \A t \in TrackRefs : Live(t) =>
        /\ trackObjs[t].counter >= 0
        /\ emits[t].attached - emits[t].detached \in {0, 1}
        /\ (emits[t].attached - emits[t].detached = 1) <=> (trackObjs[t].counter >= 1)

\* An Attached call after an unmatched Detached: a consumer is attached,
\* the count is 0 and "attached" was never emitted.
C18_AttachedUnannounced ==
    /\ call.op = "Attached"
    /\ call.emitted = << >>
    /\ trackObjs[1].counter = 0
    /\ emits[1].attached = 0

-----------------------------------------------------------------------------
(* Release and ordering inside IncomingStreamTrack.Stop (Spec).             *)

ReleaseCalls == {"depacketizer.Stop", "DeleteStreamTrackDepacketizer", "DeleteRTPIncomingSourceGroup"}

ClearingEntries(t) == {<<"encodings = nil", t, 0>>, <<"receiver = nil", t, 0>>}

\* The positions of the call log at which something is done to track t
\* before its Stop clears the track: releases, the emit, listener calls.
TeardownPositions(log, t) ==
    {i \in DOMAIN log : log[i][2] = t /\ log[i] \notin ClearingEntries(t) /\ log[i][1] # "track.Stop"}

\* C17: over any sequence of Stop calls on a track, every encoding's
\* depacketizer is stopped and released exactly once and every encoding's
\* receive-source-group is released exactly once (in the one call that
\* finds the track running, never in a later one); all releases happen
\* before the "stopped" listeners run, and the encoding map and the receiver
\* reference are cleared only after every listener has returned.
C17_ReleaseOrdering ==
    [][\A t \in TrackRefs : Live(t) =>
          LET log     == call'.log
              emit    == <<"EmitSync stopped", t, 0>>
              stopped == Count(log, emit) > 0
          IN  /\ Count(log, emit) <= 1
              /\ stopped => trackObjs[t].receiver
              /\ ~trackObjs[t].receiver => ~trackObjs'[t].receiver
              /\ \A i \in DOMAIN log :
                    (log[i][2] = t /\ log[i][1] \in ReleaseCalls) =>
                        /\ stopped
                        /\ log[i][3] \in EncodingSources(t)
              /\ stopped =>
                    /\ \A n \in EncodingSources(t) : \A c \in ReleaseCalls :
                          /\ Count(log, <<c, t, n>>) = 1
                          /\ Before(log, <<c, t, n>>, emit)
                    /\ \A n \in EncodingSources(t) :
                          Before(log, <<"depacketizer.Stop", t, n>>,
                                      <<"DeleteStreamTrackDepacketizer", t, n>>)
                    /\ IF call'.ret = "panic"
                       THEN /\ \A e \in ClearingEntries(t) : Count(log, e) = 0
                            /\ trackObjs'[t].receiver
                            /\ trackObjs'[t].encodings = trackObjs[t].encodings
                       ELSE /\ \A e \in ClearingEntries(t) :
                                  /\ Count(log, e) = 1
                                  /\ \A i \in TeardownPositions(log, t) :
                                        \A j \in Positions(log, e) : i < j
                            /\ ~trackObjs'[t].receiver
                            /\ trackObjs'[t].encodings = NilMap
                            /\ trackObjs'[t].once = << >>]_vars

\* A Stop that released the two encodings of a track, ran CreateTrack's
\* listener on both sources and then cleared the track.
C17_Witness ==
    /\ call.op = "Track.Stop"
    /\ call.ret # "panic"
    /\ \A n \in {1, 2} : \A c \in ReleaseCalls : Count(call.log, <<c, call.target, n>>) = 1
    /\ \A n \in {1, 2} : Count(call.log, <<"RemoveIncomingSourceGroup", call.target, n>>) = 1
    /\ call.log[Len(call.log)] = <<"receiver = nil", call.target, 0>>
    /\ ~trackObjs[call.target].receiver

-----------------------------------------------------------------------------
(* The session's back-references to its tracks (SpecSession).               *)

\* C16: when the incoming (resp. outgoing) track of a session stops on its
\* own, the session's reference to that track is cleared while the other
\* track reference and the session reference are unchanged; a later
\* StreamerSession.Stop does not call Stop on the already stopped track
\* again, still stops the other track, and emits the session's "stopped"
\* exactly once.
C16_BackReferences ==
    /\ [](/\ (sess.incoming = 0) <=> ~trackObjs[1].receiver
          /\ sess.outgoing <=> ~sess.outStopped)
    /\ [][/\ (call'.op # "Session.Stop" /\ Count(call'.emitted, <<"stopped", 1>>) > 0) =>
                /\ sess.incoming = 1
                /\ sess'.incoming = 0
                /\ sess'.outgoing = sess.outgoing
                /\ sess'.outStopped = sess.outStopped
                /\ sess'.session = sess.session
                /\ sess'.emits = sess.emits
          /\ (call'.op # "Session.Stop" /\ Count(call'.emitted, <<"stopped", -1>>) > 0) =>
                /\ sess.outgoing
                /\ ~sess'.outgoing
                /\ sess'.incoming = sess.incoming
                /\ trackObjs' = trackObjs
                /\ sess'.session = sess.session
                /\ sess'.emits = sess.emits
          /\ (call'.op = "Session.Stop" /\ sess.session) =>
                /\ sess.incoming = 0 =>
                      /\ Count(call'.log, <<"incoming.Stop", 1, 0>>) = 0
                      /\ Count(call'.emitted, <<"stopped", 1>>) = 0
                      /\ emits'[1] = emits[1]
                /\ sess.incoming # 0 =>
                      /\ Count(call'.log, <<"incoming.Stop", 1, 0>>) = 1
                      /\ Count(call'.emitted, <<"stopped", 1>>) = 1
                /\ ~sess.outgoing =>
                      /\ Count(call'.log, <<"outgoing.Stop", -1, 0>>) = 0
                      /\ Count(call'.emitted, <<"stopped", -1>>) = 0
                      /\ sess'.outEmits = sess.outEmits
                /\ sess.outgoing =>
                      /\ Count(call'.log, <<"outgoing.Stop", -1, 0>>) = 1
                      /\ Count(call'.emitted, <<"stopped", -1>>) = 1
                /\ ~trackObjs'[1].receiver
                /\ sess'.outStopped
                /\ Count(call'.emitted, <<"session stopped", 0>>) = 1
                /\ sess'.emits = 1]_vars

\* A StreamerSession.Stop after the incoming track had stopped on its own:
\* it stopped the outgoing track only.
C16_Witness ==
    /\ call.op = "Session.Stop"
    /\ emits[1].stopped = 1
    /\ Count(call.log, <<"incoming.Stop", 1, 0>>) = 0
    /\ Count(call.emitted, <<"stopped", 1>>) = 0
    /\ Count(call.log, <<"outgoing.Stop", -1, 0>>) = 1
    /\ Count(call.emitted, <<"session stopped", 0>>) = 1
    /\ sess.emits = 1

\* A StreamerSession.Stop after the outgoing track had stopped on its own.
C16_WitnessOutgoing ==
    /\ call.op = "Session.Stop"
    /\ sess.outEmits = 1
    /\ Count(call.log, <<"outgoing.Stop", -1, 0>>) = 0
    /\ Count(call.log, <<"incoming.Stop", 1, 0>>) = 1
    /\ sess.emits = 1

====
